---- MODULE Spec2Model ----
(***************************************************************************)
(* A model of the phishing detector of 7_anti_phishing.py: the analysis   *)
(* pipeline (analyze_email), the retry loop around the remote capability   *)
(* (_call_gemini_with_retry), the structured-response recoverer            *)
(* (_extract_json), the risk scorer (_calc_risk_level) and the result      *)
(* assembler.                                                              *)
(*                                                                         *)
(* Text is a sequence of one-character strings.  Python floats are IEEE    *)
(* binary64 values: a 53-bit mantissa (a sequence of bits, most            *)
(* significant first) and a power of two, with round-to-nearest-even after *)
(* every operation.  Only non-negative, normal values occur.               *)
(***************************************************************************)
EXTENDS Integers, Sequences, FiniteSets, TLC

(***************************************************************************)
(* Sequences of characters.                                                *)
(***************************************************************************)
Max(a, b) == IF a >= b THEN a ELSE b
Min(a, b) == IF a <= b THEN a ELSE b

\* the first place in lo..hi where P holds, hi + 1 when it holds nowhere
FirstAt(lo, hi, P(_)) ==
    CHOOSE j \in lo..(hi + 1) : (j = hi + 1 \/ P(j)) /\ \A q \in lo..(j - 1) : ~P(q)

Drop(s, n) == SubSeq(s, n + 1, Len(s))
Take(s, n) == SubSeq(s, 1, Min(n, Len(s)))

\* s[i..] starts with p
StartsAt(s, i, p) ==
    /\ i + Len(p) - 1 <= Len(s)
    /\ \A j \in 1..Len(p) : s[i + j - 1] = p[j]

\* Python's "needle in hay" on str
Contains(hay, needle) == \E i \in 1..(Len(hay) + 1) : StartsAt(hay, i, needle)

UpperChars == <<"A","B","C","D","E","F","G","H","I","J","K","L","M",
                "N","O","P","Q","R","S","T","U","V","W","X","Y","Z">>
LowerChars == <<"a","b","c","d","e","f","g","h","i","j","k","l","m",
                "n","o","p","q","r","s","t","u","v","w","x","y","z">>
DigitChars == <<"0","1","2","3","4","5","6","7","8","9">>

InSeq(c, s) == \E i \in 1..Len(s) : s[i] = c

\* str.lower(), one character
LowerChar(c) ==
    IF InSeq(c, UpperChars)
    THEN LowerChars[CHOOSE i \in 1..Len(UpperChars) : UpperChars[i] = c]
    ELSE c
\* str.lower()
Lower(s) == [i \in 1..Len(s) |-> LowerChar(s[i])]

\* the class \s of re, and the characters str.strip() removes
IsSpace(c) == c \in {" ", "\n", "\t", "\r", "\f"}
\* the class \w of re
IsWord(c) == InSeq(c, UpperChars) \/ InSeq(c, LowerChars) \/ InSeq(c, DigitChars) \/ c = "_"
IsDigit(c) == InSeq(c, DigitChars)
DigitVal(c) == (CHOOSE i \in 1..10 : DigitChars[i] = c) - 1

RECURSIVE LStrip(_)
LStrip(s) == IF s # <<>> /\ IsSpace(s[1]) THEN LStrip(Tail(s)) ELSE s
RECURSIVE RStrip(_)
RStrip(s) == IF s # <<>> /\ IsSpace(s[Len(s)]) THEN RStrip(SubSeq(s, 1, Len(s) - 1)) ELSE s
\* str.strip()
Strip(s) == RStrip(LStrip(s))

(***************************************************************************)
(* Natural numbers as bit sequences, most significant bit first.           *)
(***************************************************************************)
Zeros(n) == [i \in 1..n |-> 0]

\* without the leading zeros
TrimBits(b) ==
    IF \A i \in 1..Len(b) : b[i] = 0 THEN <<>>
    ELSE SubSeq(b, CHOOSE i \in 1..Len(b) : b[i] = 1 /\ \A j \in 1..(i - 1) : b[j] = 0, Len(b))

\* without the trailing zeros
RTrimZeros(b) ==
    IF \A i \in 1..Len(b) : b[i] = 0 THEN <<>>
    ELSE SubSeq(b, 1, CHOOSE i \in 1..Len(b) : b[i] = 1 /\ \A j \in (i + 1)..Len(b) : b[j] = 0)

PadBits(b, n) == Zeros(n - Len(b)) \o b

\* a + b; the carry into place i comes from the nearest place to its right where both
\* bits are 1, when every place in between has a 1
BitsAdd(a, b) ==
    LET n == Max(Len(a), Len(b)) + 1
        A == PadBits(a, n)
        B == PadBits(b, n)
        carry(i) == \E j \in (i + 1)..n :
                        /\ A[j] = 1 /\ B[j] = 1
                        /\ \A k \in (i + 1)..(j - 1) : A[k] + B[k] >= 1
    IN  TrimBits([i \in 1..n |-> (A[i] + B[i] + (IF carry(i) THEN 1 ELSE 0)) % 2])

RECURSIVE IntBits(_)
IntBits(n) == IF n = 0 THEN <<>> ELSE IntBits(n \div 2) \o <<n % 2>>

\* a * b: one shifted copy of a for every 1 of b
RECURSIVE MulBy(_, _)
MulBy(a, b) ==
    IF b = <<>> THEN <<>>
    ELSE LET rest == MulBy(a \o <<0>>, SubSeq(b, 1, Len(b) - 1))
         IN  IF b[Len(b)] = 1 THEN BitsAdd(rest, a) ELSE rest
BitsMul(a, b) == IF Len(b) <= Len(a) THEN MulBy(a, b) ELSE MulBy(b, a)

\* a < b, for bit sequences without leading zeros
BitsLt(a, b) ==
    IF Len(a) # Len(b) THEN Len(a) < Len(b)
    ELSE \E i \in 1..Len(a) : a[i] < b[i] /\ \A j \in 1..(i - 1) : a[j] = b[j]

(***************************************************************************)
(* binary64: [mant, exp] is mant * 2^exp, mant of MantBits bits with its   *)
(* first bit 1; zero has the empty mantissa.                               *)
(***************************************************************************)
MantBits == 53
FZero == [mant |-> <<>>, exp |-> 0]
IsFZero(x) == x.mant = <<>>

\* bits * 2^e rounded to the nearest binary64, ties to even
RoundBits(bits, e) ==
    LET b == TrimBits(bits)
        n == Len(b)
    IN  IF n = 0 THEN FZero
        ELSE IF n <= MantBits
        THEN [mant |-> b \o Zeros(MantBits - n), exp |-> e - (MantBits - n)]
        ELSE LET top    == SubSeq(b, 1, MantBits)
                 rest   == SubSeq(b, MantBits + 1, n)
                 sticky == \E i \in 2..Len(rest) : rest[i] = 1
                 up     == rest[1] = 1 /\ (sticky \/ top[MantBits] = 1)
                 t      == IF up THEN BitsAdd(top, <<1>>) ELSE top
             IN  IF Len(t) > MantBits
                 THEN [mant |-> SubSeq(t, 1, MantBits), exp |-> e + (n - MantBits) + 1]
                 ELSE [mant |-> t, exp |-> e + (n - MantBits)]

\* float + float
FAdd(x, y) ==
    IF IsFZero(x) THEN y
    ELSE IF IsFZero(y) THEN x
    ELSE LET e == Min(x.exp, y.exp)
         IN  RoundBits(BitsAdd(x.mant \o Zeros(x.exp - e),
                               y.mant \o Zeros(y.exp - e)), e)

\* float * float
FMul(x, y) ==
    IF IsFZero(x) \/ IsFZero(y) THEN FZero
    ELSE LET a  == RTrimZeros(x.mant)
             b  == RTrimZeros(y.mant)
         IN  RoundBits(BitsMul(a, b),
                       x.exp + (MantBits - Len(a)) + y.exp + (MantBits - Len(b)))

\* float < float
FLt(x, y) ==
    IF IsFZero(y) THEN FALSE
    ELSE IF IsFZero(x) THEN TRUE
    ELSE IF x.exp # y.exp THEN x.exp < y.exp
    ELSE BitsLt(x.mant, y.mant)

\* min(x, y) of Python: y only when it is smaller
FMin(x, y) == IF FLt(y, x) THEN y ELSE x

RECURSIVE Pow10(_)
Pow10(d) == IF d = 0 THEN 1 ELSE 10 * Pow10(d - 1)

\* the binary expansion of r/den (r < den), ChunkBits bits at a time, until acc holds
\* `want` significant bits; a last bit is added: 1 when what is left is not zero
ChunkBits == 8
RECURSIVE FracBits(_, _, _, _, _)
FracBits(r, den, acc, nfrac, want) ==
    IF Len(TrimBits(acc)) >= want \/ r = 0
    THEN [bits |-> acc \o <<IF r = 0 THEN 0 ELSE 1>>, nfrac |-> nfrac + 1]
    ELSE LET p    == r * 256
             more == acc \o PadBits(IntBits(p \div den), ChunkBits)
         IN  FracBits(p % den, den, more, nfrac + ChunkBits, want)

\* the float nearest to the decimal m / 10^d (what float("...") and json.loads give)
ToDouble(m, d) ==
    LET den == Pow10(d)
        f   == FracBits(m % den, den, IntBits(m \div den), 0, MantBits + 2)
    IN  RoundBits(f.bits, 0 - f.nfrac)

F_0_1  == ToDouble(1, 1)
F_0_35 == ToDouble(35, 2)
F_0_5  == ToDouble(5, 1)
F_0_65 == ToDouble(65, 2)
F_1_0  == ToDouble(1, 0)
F_100  == ToDouble(100, 0)
F_50_0 == ToDouble(50, 0)

(***************************************************************************)
(* Python values: what json.loads returns and the pipeline handles.        *)
(* Numbers (int and float alike) carry a binary64 value.  A dict is the    *)
(* sequence of its <<key, value>> pairs as parsed; a lookup takes the last *)
(* pair with the key.                                                      *)
(***************************************************************************)
PyNum(d)   == [k |-> "num",  v |-> d]
PyStr(s)   == [k |-> "str",  v |-> s]
PyList(xs) == [k |-> "list", v |-> xs]
PyDict(ps) == [k |-> "dict", v |-> ps]
PyBool(b)  == [k |-> "bool", v |-> b]
PyNone     == [k |-> "none", v |-> <<>>]

\* dict.get(key, default); n counts the pairs after the last one with the key
DictGetAt(d, n, default) == IF n >= Len(d.v) THEN default ELSE d.v[Len(d.v) - n][2]
DictGet(d, key, default) ==
    DictGetAt(d, FirstAt(0, Len(d.v) - 1, LAMBDA n : d.v[Len(d.v) - n][1] = key), default)

(***************************************************************************)
(* json.loads, for text without a sign, an exponent, NaN, Infinity or a    *)
(* \u escape.  A parse gives [ok, val, end]: end is the place after the    *)
(* value.                                                                  *)
(***************************************************************************)
ParseFail == [ok |-> FALSE, val |-> PyNone, end |-> 0]
ParseOk(v, e) == [ok |-> TRUE, val |-> v, end |-> e]

IsJsonWs(c) == c \in {" ", "\t", "\n", "\r"}
\* the first place from i on that holds no JSON whitespace
SkipWs(t, i) ==
    IF i > Len(t) THEN i ELSE FirstAt(i, Len(t), LAMBDA j : ~IsJsonWs(t[j]))

\* place j of t is escaped: an odd number of backslashes stands right before
\* it, not going below place lo
Escaped(t, lo, j) ==
    FirstAt(0, j - lo - 1, LAMBDA n : t[j - 1 - n] # "\\") % 2 = 1

EscapeLetters == <<"\"", "\\", "/", "b", "f", "n", "r", "t">>
\* "<BS>" stands for the backspace character
EscapeValues  == <<"\"", "\\", "/", "<BS>", "\f", "\n", "\r", "\t">>
Unescape(c) == EscapeValues[CHOOSE i \in 1..Len(EscapeLetters) : EscapeLetters[i] = c]
\* a character json refuses inside a string (strict mode)
IsControl(c) == c \in {"\n", "\t", "\r", "\f", "<BS>"}

\* place p of a string body opens an escape
OpensEscape(raw, p) == raw[p] = "\\" /\ ~Escaped(raw, 1, p)
DecodeAt(raw, p) == IF p > 1 /\ OpensEscape(raw, p - 1) THEN Unescape(raw[p]) ELSE raw[p]
Nth(S, n) == CHOOSE p \in S : Cardinality({q \in S : q <= p}) = n
DecodeKept(raw, kept) == [n \in 1..Cardinality(kept) |-> DecodeAt(raw, Nth(kept, n))]
\* the text of a JSON string body: every escape replaced by its character
DecodeString(raw) ==
    IF \A p \in 1..Len(raw) : raw[p] # "\\" THEN raw
    ELSE DecodeKept(raw, {p \in 1..Len(raw) : ~OpensEscape(raw, p)})

BadStringBody(raw) ==
    \E p \in 1..Len(raw) :
        \/ IsControl(raw[p])
        \/ OpensEscape(raw, p) /\ ~InSeq(raw[p + 1], EscapeLetters)
StringBody(raw, e) ==
    IF BadStringBody(raw) THEN ParseFail ELSE ParseOk(PyStr(DecodeString(raw)), e)
\* the place of the quote that closes the string opened at i, Len(t) + 1 if none does
StringEnd(t, i) ==
    FirstAt(i + 1, Len(t), LAMBDA j : t[j] = "\"" /\ ~Escaped(t, i + 1, j))
StringFrom(t, i, j) ==
    IF j > Len(t) THEN ParseFail ELSE StringBody(SubSeq(t, i + 1, j - 1), j + 1)
\* t[i] is the opening quote
ParseString(t, i) == StringFrom(t, i, StringEnd(t, i))

\* the last place of the run of digits that starts at i
DigitsEnd(t, i) == FirstAt(i, Len(t), LAMBDA e : ~IsDigit(t[e])) - 1

RECURSIVE DigitsVal(_)
DigitsVal(ds) ==
    IF ds = <<>> THEN 0
    ELSE 10 * DigitsVal(SubSeq(ds, 1, Len(ds) - 1)) + DigitVal(ds[Len(ds)])

NumberOf(digits, ndec, e) == ParseOk(PyNum(ToDouble(DigitsVal(digits), ndec)), e)
\* fracEnd = intEnd when there is no fraction
NumberFrac(t, i, intEnd, fracEnd) ==
    NumberOf(SubSeq(t, i, intEnd) \o SubSeq(t, intEnd + 2, fracEnd),
             Max(0, fracEnd - (intEnd + 1)), fracEnd + 1)
NumberFrom(t, i, intEnd) ==
    IF intEnd + 2 <= Len(t) /\ t[intEnd + 1] = "." /\ IsDigit(t[intEnd + 2])
    THEN NumberFrac(t, i, intEnd, DigitsEnd(t, intEnd + 2))
    ELSE NumberFrac(t, i, intEnd, intEnd)
\* t[i] is a digit: (0|[1-9]\d*)(\.\d+)?
ParseNumber(t, i) == NumberFrom(t, i, IF t[i] = "0" THEN i ELSE DigitsEnd(t, i))

L_null  == <<"n","u","l","l">>
L_true  == <<"t","r","u","e">>
L_false == <<"f","a","l","s","e">>

RECURSIVE ParseValue(_, _), ParseMembers(_, _, _), ParseItems(_, _, _)

\* after a member: "}" closes the dict, "," opens the next member
MembersNext(t, more, e) ==
    IF e > Len(t) THEN ParseFail
    ELSE IF t[e] = "}" THEN ParseOk(PyDict(more), e + 1)
    ELSE IF t[e] = "," THEN ParseMembers(t, SkipWs(t, e + 1), more)
    ELSE ParseFail
MemberValue(t, acc, key, val) ==
    IF ~val.ok THEN ParseFail
    ELSE MembersNext(t, acc \o << <<key, val.val>> >>, SkipWs(t, val.end))
MemberColon(t, acc, key, c) ==
    IF c > Len(t) \/ t[c] # ":" THEN ParseFail
    ELSE MemberValue(t, acc, key, ParseValue(t, SkipWs(t, c + 1)))
MemberKey(t, acc, key) ==
    IF ~key.ok THEN ParseFail ELSE MemberColon(t, acc, key.val.v, SkipWs(t, key.end))
\* t[j] must open the next key; acc holds the pairs so far
ParseMembers(t, j, acc) ==
    IF j > Len(t) \/ t[j] # "\"" THEN ParseFail
    ELSE MemberKey(t, acc, ParseString(t, j))

\* after an item: "]" closes the list, "," opens the next item
ItemsNext(t, more, e) ==
    IF e > Len(t) THEN ParseFail
    ELSE IF t[e] = "]" THEN ParseOk(PyList(more), e + 1)
    ELSE IF t[e] = "," THEN ParseItems(t, SkipWs(t, e + 1), more)
    ELSE ParseFail
ItemValue(t, acc, val) ==
    IF ~val.ok THEN ParseFail
    ELSE ItemsNext(t, acc \o <<val.val>>, SkipWs(t, val.end))
\* the next item starts at j; acc holds the items so far
ParseItems(t, j, acc) == ItemValue(t, acc, ParseValue(t, j))

DictFrom(t, j) ==
    IF j <= Len(t) /\ t[j] = "}" THEN ParseOk(PyDict(<<>>), j + 1)
    ELSE ParseMembers(t, j, <<>>)
ListFrom(t, j) ==
    IF j <= Len(t) /\ t[j] = "]" THEN ParseOk(PyList(<<>>), j + 1)
    ELSE ParseItems(t, j, <<>>)

\* scan_once: the value that starts at place i
ParseValue(t, i) ==
    IF i > Len(t) THEN ParseFail
    ELSE IF t[i] = "\"" THEN ParseString(t, i)
    ELSE IF t[i] = "{" THEN DictFrom(t, SkipWs(t, i + 1))
    ELSE IF t[i] = "[" THEN ListFrom(t, SkipWs(t, i + 1))
    ELSE IF StartsAt(t, i, L_null) THEN ParseOk(PyNone, i + 4)
    ELSE IF StartsAt(t, i, L_true) THEN ParseOk(PyBool(TRUE), i + 4)
    ELSE IF StartsAt(t, i, L_false) THEN ParseOk(PyBool(FALSE), i + 5)
    ELSE IF IsDigit(t[i]) THEN ParseNumber(t, i)
    ELSE ParseFail

Whole(t, r) == IF r.ok /\ SkipWs(t, r.end) = Len(t) + 1 THEN r ELSE ParseFail
\* json.loads(t): a value, with nothing but whitespace around it; ok is FALSE where
\* json.loads raises
json_loads(t) == Whole(t, ParseValue(t, SkipWs(t, 1)))

(***************************************************************************)
(* The text constants of the program.                                      *)
(***************************************************************************)
K_phishing_likelihood == <<"p","h","i","s","h","i","n","g","_","l","i","k","e","l","i","h","o",
    "o","d">>
K_confidence == <<"c","o","n","f","i","d","e","n","c","e">>
K_insights == <<"i","n","s","i","g","h","t","s">>
K_reasoning == <<"r","e","a","s","o","n","i","n","g">>
K_recommended_action == <<"r","e","c","o","m","m","e","n","d","e","d","_","a","c","t","i","o",
    "n">>
T_parser_error == <<"P","a","r","s","e","r"," ","e","r","r","o","r"," ","-"," ","c","o","u","l",
    "d","n","'","t"," ","e","x","t","r","a","c","t"," ","a","n","a","l","y","s","i","s">>
T_format_error == <<"R","e","s","p","o","n","s","e"," ","f","o","r","m","a","t"," ","e","r","r",
    "o","r">>
T_manual_review == <<"M","a","n","u","a","l","l","y"," ","r","e","v","i","e","w"," ","t","h",
    "i","s"," ","e","m","a","i","l">>
T_review_carefully == <<"R","e","v","i","e","w"," ","e","m","a","i","l"," ","c","a","r","e","f",
    "u","l","l","y">>
T_api_error == <<"A","P","I"," ","e","r","r","o","r",":"," ","U","n","a","b","l","e"," ","t",
    "o"," ","a","n","a","l","y","z","e"," ","e","m","a","i","l">>
T_error_prefix == <<"E","r","r","o","r",":"," ">>
T_examine == <<"P","l","e","a","s","e"," ","e","x","a","m","i","n","e"," ","t","h","e"," ","e",
    "m","a","i","l"," ","c","a","r","e","f","u","l","l","y">>
T_error_in_analysis == <<"E","r","r","o","r"," ","i","n"," ","a","n","a","l","y","s","i","s",
    " ","p","r","o","c","e","s","s">>
T_manual_required == <<"M","a","n","u","a","l"," ","r","e","v","i","e","w"," ","r","e","q","u",
    "i","r","e","d">>
T_empty_email == <<"E","m","p","t","y"," ","e","m","a","i","l"," ","t","e","x","t">>
T_rate_limit == <<"r","a","t","e"," ","l","i","m","i","t">>
T_unknown == <<"u","n","k","n","o","w","n">>
T_from == <<"f","r","o","m",":">>
T_subject == <<"s","u","b","j","e","c","t",":">>
T_truncated == <<".",".",".","[","t","r","u","n","c","a","t","e","d","]">>
T_empty_object == <<"{","}">>

(***************************************************************************)
(* _extract_json: the structured-response recoverer.                       *)
(***************************************************************************)
\* re.search(r'({[\s\S]*})', text): from the first "{" to the last "}" after it
FirstBrace(text) == FirstAt(1, Len(text), LAMBDA i : text[i] = "{")
\* the place of the last "}" after place i, i itself when there is none
LastBrace(text, i) ==
    Len(text) - FirstAt(0, Len(text) - i - 1, LAMBDA n : text[Len(text) - n] = "}")

\* re.sub(r'(\w+):', r'"\1":', t): every run of word characters that a colon follows
\* is put between double quotes; the runs are taken from left to right
RECURSIVE QuoteBareKeys(_)
\* the place where the run of word characters that ends at e starts
RunStart(t, e) == e - FirstAt(0, e - 2, LAMBDA n : ~IsWord(t[e - 1 - n]))
QuoteRun(t, s, e) ==
    SubSeq(t, 1, s - 1) \o <<"\"">> \o SubSeq(t, s, e) \o <<"\"", ":">>
        \o QuoteBareKeys(SubSeq(t, e + 2, Len(t)))
QuoteFrom(t, e) == IF e >= Len(t) THEN t ELSE QuoteRun(t, RunStart(t, e), e)
QuoteBareKeys(t) ==
    IF Len(t) < 2 THEN t
    ELSE QuoteFrom(t, FirstAt(1, Len(t) - 1, LAMBDA e : IsWord(t[e]) /\ t[e + 1] = ":"))

\* str.replace("'", '"')
SingleToDoubleQuotes(t) == [i \in 1..Len(t) |-> IF t[i] = "'" THEN "\"" ELSE t[i]]

\* the ParsedAnalysis that stands for a response no stage could parse
DefaultAnalysis ==
    PyDict(<< <<K_phishing_likelihood, PyNum(F_0_5)>>,
              <<K_confidence, PyNum(ToDouble(3, 1))>>,
              <<K_insights, PyList(<<PyStr(T_parser_error)>>)>>,
              <<K_reasoning, PyStr(T_format_error)>>,
              <<K_recommended_action, PyStr(T_manual_review)>> >>)

\* (variant: a failed last parse ends like empty text, with an empty object)
ThirdParse_empty(third) == IF third.ok THEN third.val ELSE PyDict(<<>>)
\* lines 148-160: the repaired text parses, or the default stands in
ThirdParse(third) == IF third.ok THEN third.val ELSE DefaultAnalysis
\* lines 142-149: the text between the braces parses, or is repaired first
SecondParse(json_text, second) ==
    IF second.ok THEN second.val
    ELSE ThirdParse(json_loads(SingleToDoubleQuotes(QuoteBareKeys(json_text))))
\* lines 140-141: json_match spans places i..j when j > i
BraceMatch(text, i, j) ==
    IF j <= i THEN DefaultAnalysis
    ELSE SecondParse(SubSeq(text, i, j), json_loads(SubSeq(text, i, j)))
BraceSearch(text, i) ==
    IF i > Len(text) THEN DefaultAnalysis ELSE BraceMatch(text, i, LastBrace(text, i))
\* lines 137-140: the text parses as it is, or the braces are searched
FirstParse(text, direct) ==
    IF direct.ok THEN direct.val ELSE BraceSearch(text, FirstBrace(text))
_extract_json(text) ==
    IF text = <<>> THEN PyDict(<<>>) ELSE FirstParse(text, json_loads(text))

(***************************************************************************)
(* _calc_risk_level: the risk scorer.  A result of "raise" stands for an   *)
(* exception leaving the function.                                         *)
(***************************************************************************)
RiskLevel_SAFE       == "Safe"
RiskLevel_SUSPICIOUS == "Suspicious"
RiskLevel_DANGEROUS  == "Dangerous"
RiskLevel == {RiskLevel_SAFE, RiskLevel_SUSPICIOUS, RiskLevel_DANGEROUS}
Raise == "raise"

danger_keywords == <<
    <<"c","r","e","d","e","n","t","i","a","l","s">>,
    <<"p","a","s","s","w","o","r","d">>,
    <<"a","c","c","o","u","n","t">>,
    <<"u","r","g","e","n","t">>,
    <<"l","o","g","i","n">>,
    <<"v","e","r","i","f","y">>>>

\* int, float and bool take part in arithmetic
IsNumeric(v) == v.k \in {"num", "bool"}
NumOf(v) == IF v.k = "bool" THEN (IF v.v THEN F_1_0 ELSE FZero) ELSE v.v

\* what "for insight in insights" goes through: the items of a list, the characters
\* of a str, the keys of a dict; anything else is not iterable
IsIterable(v) == v.k \in {"list", "str", "dict"}
DictKeys(ps, firsts) == [n \in 1..Cardinality(firsts) |-> PyStr(ps[Nth(firsts, n)][1])]
IterItems(v) ==
    IF v.k = "list" THEN v.v
    ELSE IF v.k = "str" THEN [i \in 1..Len(v.v) |-> PyStr(<<v.v[i]>>)]
    ELSE DictKeys(v.v, {i \in 1..Len(v.v) : \A j \in 1..(i - 1) : v.v[j][1] # v.v[i][1]})

\* any(keyword in insight.lower() for keyword in danger_keywords)
KeywordIn(insight_lower) ==
    \E n \in 1..Len(danger_keywords) : Contains(insight_lower, danger_keywords[n])
HasDangerKeyword(insight) == KeywordIn(Lower(insight))

\* the loop over the insights from place i on; phish_score is the score so far
RECURSIVE ScoreInsights(_, _, _)
ScoreInsights(insights, i, phish_score) ==
    IF i > Len(insights) THEN [raise |-> FALSE, score |-> phish_score]
    ELSE IF insights[i].k # "str" THEN [raise |-> TRUE, score |-> phish_score]
    ELSE IF ~HasDangerKeyword(insights[i].v) THEN ScoreInsights(insights, i + 1, phish_score)
    ELSE IF ~IsNumeric(phish_score) THEN [raise |-> TRUE, score |-> phish_score]
    ELSE LET added == PyNum(FAdd(NumOf(phish_score), F_0_1))
         IN  ScoreInsights(insights, i + 1, added)

\* lines 172-177
Classify(score) ==
    IF FLt(score, F_0_35) THEN RiskLevel_SAFE
    ELSE IF FLt(score, F_0_65) THEN RiskLevel_SUSPICIOUS
    ELSE RiskLevel_DANGEROUS
\* line 171: min(phish_score, 1.0)
AfterLoop(looped) ==
    IF looped.raise \/ ~IsNumeric(looped.score) THEN Raise
    ELSE Classify(FMin(NumOf(looped.score), F_1_0))
\* lines 165-170
ScoreLoop(phish_score, insights) ==
    IF ~IsIterable(insights) THEN Raise
    ELSE AfterLoop(ScoreInsights(IterItems(insights), 1, phish_score))
_calc_risk_level(analysis) ==
    IF analysis.k # "dict" THEN Raise
    ELSE ScoreLoop(DictGet(analysis, K_phishing_likelihood, PyNum(F_0_5)),
                   DictGet(analysis, K_insights, PyList(<<>>)))

(***************************************************************************)
(* _format_confidence, _error_response and the end of analyze_email.       *)
(***************************************************************************)
\* float(str), for text without a sign, an exponent, "inf", "nan" or "_":
\* digits, digits.digits, digits. or .digits, with whitespace around
IsFloatText(t) ==
    /\ \E i \in 1..Len(t) : IsDigit(t[i])
    /\ \A i \in 1..Len(t) : IsDigit(t[i]) \/ t[i] = "."
    /\ Cardinality({i \in 1..Len(t) : t[i] = "."}) <= 1
FloatOfText(t) ==
    ToDouble(DigitsVal(SelectSeq(t, IsDigit)),
             Max(0, Len(t) - FirstAt(1, Len(t), LAMBDA i : t[i] = ".")))
\* float(str) * 100 on the stripped text, 50.0 where float raises
FormatText(t) == IF IsFloatText(t) THEN FMul(FloatOfText(t), F_100) ELSE F_50_0

_format_confidence(confidence) ==
    IF IsNumeric(confidence) THEN FMul(NumOf(confidence), F_100)
    ELSE IF confidence.k = "str" THEN FormatText(Strip(confidence.v))
    ELSE F_50_0

Timestamp == "2025-03-07 14:05:36"
Raised == [kind |-> "raise"]

_error_response(message) ==
    [kind               |-> "verdict",
     timestamp          |-> Timestamp,
     risk_level         |-> RiskLevel_SUSPICIOUS,
     confidence         |-> F_50_0,
     reasons            |-> PyList(<<PyStr(T_error_in_analysis)>>),
     recommended_action |-> PyStr(T_manual_required),
     analysis           |-> PyStr(message)]

\* lines 44-51 of analyze_email: the Verdict, or the exception that leaves the call
Verdict(analysis, risk_level, insights) ==
    IF risk_level = Raise THEN Raised
    ELSE IF insights.k = "dict" THEN Raised
    ELSE [kind               |-> "verdict",
          timestamp          |-> Timestamp,
          risk_level         |-> risk_level,
          confidence         |-> _format_confidence(
                                     DictGet(analysis, K_confidence, PyNum(F_0_5))),
          reasons            |-> [k |-> insights.k, v |-> Take(insights.v, 5)],
          recommended_action |-> DictGet(analysis, K_recommended_action,
                                         PyStr(T_review_carefully)),
          analysis           |-> DictGet(analysis, K_reasoning, PyStr(<<>>))]
VerdictFor(analysis) ==
    Verdict(analysis, _calc_risk_level(analysis),
            DictGet(analysis, K_insights, PyList(<<>>)))
\* lines 42-51 of analyze_email: from the response text to the Verdict
MakeVerdict(response_text) == VerdictFor(_extract_json(response_text))

(***************************************************************************)
(* Email pre-processing: _extract_email_parts and _build_prompt.           *)
(***************************************************************************)
\* re.search(name + r"\s*(.*?)(?:\n|$)", raw_text, re.I): the leftmost
\* occurrence of the header name in any letter case, all the whitespace after
\* it, then the shortest run of characters up to the first line feed (which
\* the match consumes) or the end of the text.  "end" is match.end().
NoMatch == [found |-> FALSE, group |-> <<>>, end |-> 0]
\* the group runs from a up to the line feed at e, or to the end of the text
MatchAt(raw_text, a, e) ==
    [found |-> TRUE, group |-> SubSeq(raw_text, a, e - 1), end |-> Min(e, Len(raw_text))]
MatchGroup(raw_text, a) ==
    MatchAt(raw_text, a, FirstAt(a, Len(raw_text), LAMBDA i : raw_text[i] = "\n"))
MatchFrom(raw_text, name, s) ==
    IF s > Len(raw_text) THEN NoMatch
    ELSE MatchGroup(raw_text,
                    FirstAt(s + Len(name), Len(raw_text), LAMBDA i : ~IsSpace(raw_text[i])))
HeaderStart(low, name) == FirstAt(1, Len(low), LAMBDA i : StartsAt(low, i, name))
HeaderSearch(raw_text, name) == MatchFrom(raw_text, name, HeaderStart(Lower(raw_text), name))

\* lines 53-69
EmailParts(raw_text, from_match, subj_match, header_pos) ==
    [sender  |-> IF from_match.found THEN Strip(from_match.group) ELSE T_unknown,
     subject |-> IF subj_match.found THEN Strip(subj_match.group) ELSE T_unknown,
     body    |-> IF header_pos > 0 THEN Strip(Drop(raw_text, header_pos)) ELSE raw_text]
HeaderPos(raw_text, from_match, subj_match) ==
    EmailParts(raw_text, from_match, subj_match, Max(Max(0, from_match.end), subj_match.end))
_extract_email_parts(raw_text) ==
    HeaderPos(raw_text, HeaderSearch(raw_text, T_from), HeaderSearch(raw_text, T_subject))

max_body_len == 5000

\* The fixed pieces of the prompt template; each is kept as one element of the
\* prompt, the interpolated sender, subject and body are kept character by
\* character.
Tpl_intro == <<"Analyze this email for phishing threats and security risks.\nEMAIL:\nFrom: ">>
Tpl_subject == <<"\nSubject: ">>
Tpl_body == <<"\nBody: \n">>
Tpl_instructions ==
    <<"\nLook for:\n- Urgency/threatening language\n- Spelling/grammar issues\n- Requests for sensitive data (credentials, personal info)\n- Suspicious links or attachments\n- Brand impersonation attempts\n- Social engineering tactics\nIMPORTANT: Respond with ONLY a JSON object having this structure:\n{\n  \"phishing_likelihood\": <float 0-1>,\n  \"confidence\": <float 0-1>,\n  \"insights\": [<strings listing specific red flags>],\n  \"reasoning\": \"<detailed explanation>\",\n  \"recommended_action\": \"<action advice for user>\"\n}\n">>

_build_prompt(sender, subject, body) ==
    LET shown == IF Len(body) > max_body_len
                 THEN Take(body, max_body_len) \o T_truncated
                 ELSE body
    IN  Tpl_intro \o sender \o Tpl_subject \o subject \o Tpl_body \o shown \o Tpl_instructions

\* (variant: without the strip, only the empty string is taken for empty)
IsEmptyEmail_unstripped(email_text) == email_text = <<>>
\* line 30 of analyze_email: not email_text or not email_text.strip()
IsEmptyEmail(email_text) == email_text = <<>> \/ Strip(email_text) = <<>>

\* lines 32-33 of analyze_email
PromptFrom(parts) == _build_prompt(parts.sender, parts.subject, parts.body)
PromptOf(email_text) == PromptFrom(_extract_email_parts(email_text))

(***************************************************************************)
(* The remote client: tiers, retry budget, rate-limit test and the text    *)
(* returned when the budget is used up.                                    *)
(***************************************************************************)
MAX_RETRIES == 3
models_to_try == <<"gemini-2.0-flash", "gemini-1.5-flash", "gemini-1.0-pro">>

\* (variant: every attempt against the primary model)
ModelFor_primary(n) == models_to_try[1]
\* model_idx = min(attempt, len(models_to_try) - 1); attempt counts from 0
ModelFor(n) == models_to_try[Min(n, Len(models_to_try) - 1) + 1]

\* "rate limit" in error_msg.lower()
IsRateLimit(error_msg) == Contains(Lower(error_msg), T_rate_limit)

\* json.dumps of a str: quotes, backslashes and control characters escaped
JsonEscapeChar(c) ==
    IF c = "\"" THEN <<"\\", "\"">>
    ELSE IF c = "\\" THEN <<"\\", "\\">>
    ELSE IF c = "\n" THEN <<"\\", "n">>
    ELSE IF c = "\r" THEN <<"\\", "r">>
    ELSE IF c = "\t" THEN <<"\\", "t">>
    ELSE <<c>>
RECURSIVE JsonEscape(_)
JsonEscape(s) == IF s = <<>> THEN <<>> ELSE JsonEscapeChar(Head(s)) \o JsonEscape(Tail(s))

SentinelHead == <<"{","\"","p","h","i","s","h","i","n","g","_","l","i","k","e","l","i","h","o",
    "o","d","\"",":"," ","0",".","5",","," ","\"","c","o","n","f","i","d","e","n","c","e","\"",
    ":"," ","0",".","4",","," ","\"","i","n","s","i","g","h","t","s","\"",":"," ","[","\"","A",
    "P","I"," ","e","r","r","o","r",":"," ","U","n","a","b","l","e"," ","t","o"," ","a","n","a",
    "l","y","z","e"," ","e","m","a","i","l","\"","]",","," ","\"","r","e","a","s","o","n","i",
    "n","g","\"",":"," ","\"">>
SentinelTail == <<"\"",","," ","\"","r","e","c","o","m","m","e","n","d","e","d","_","a","c","t",
    "i","o","n","\"",":"," ","\"","P","l","e","a","s","e"," ","e","x","a","m","i","n","e"," ",
    "t","h","e"," ","e","m","a","i","l"," ","c","a","r","e","f","u","l","l","y","\"","}">>

\* lines 126-132: json.dumps of the fallback analysis
FallbackText(error_msg) ==
    SentinelHead \o JsonEscape(T_error_prefix \o error_msg) \o SentinelTail

(***************************************************************************)
(* The inputs explored: emails, replies of the remote model and messages   *)
(* of the exceptions it raises.                                            *)
(***************************************************************************)
Email_empty == <<>>
Email_blank == <<" ","\n">>
Email_plain == <<"H","e","l","l","o">>
Email_headers == <<"F","r","o","m",":"," ","a","@","b",".","c","o","m","\n","S","u","b","j","e",
    "c","t",":"," ","H","i","\n","B","o","d","y"," ","t","e","x","t">>
Email_headers_loose == <<"f","r","o","m",":"," ","a","@","b",".","c","o","m"," ","\n","S","U",
    "B","J","E","C","T",":"," ","H","i","\n","\n","B","o","d","y"," ","t","e","x","t","\n">>
Emails == {Email_empty, Email_blank, Email_plain, Email_headers, Email_headers_loose}
NonEmptyEmails == {e \in Emails : ~IsEmptyEmail(e)}

Resp_safe == <<"{","\"","p","h","i","s","h","i","n","g","_","l","i","k","e","l","i","h","o","o",
    "d","\"",":"," ","0",".","1",","," ","\"","c","o","n","f","i","d","e","n","c","e","\"",":",
    " ","0",".","9","}">>
Resp_bare_keys == <<"{","p","h","i","s","h","i","n","g","_","l","i","k","e","l","i","h","o","o",
    "d",":"," ","0",".","8",","," ","i","n","s","i","g","h","t","s",":"," ","[","'","v","e","r",
    "i","f","y"," ","p","a","s","s","w","o","r","d","'","]","}">>
Resp_list == <<"[","]">>
Resp_overconfident == <<"{","\"","c","o","n","f","i","d","e","n","c","e","\"",":"," ","5","}">>
Resp_prose == <<"s","o","r","r","y">>
Responses == {Resp_safe, Resp_bare_keys, Resp_list, Resp_overconfident, Resp_prose}

Msg_rate_limit == <<"4","2","9"," ","R","a","t","e"," ","L","i","m","i","t">>
Msg_other == <<"b","a","d"," ","\"","k","e","y","\"">>
ErrorMessages == {Msg_rate_limit, Msg_other}

(***************************************************************************)
(* The detector as a state machine.  One call of analyze_email is a step   *)
(* when it needs no remote model (empty input, cache hit); otherwise it    *)
(* enters the retry loop of _call_gemini_with_retry, and every invocation  *)
(* of the remote model is one step, the last of which also runs the rest   *)
(* of analyze_email (cache store, extraction, scoring, Verdict).           *)
(***************************************************************************)
MaxCalls == 2
NumHashValues == 2

HashValues == 1..NumHashValues

Prompts == {PromptOf(e) : e \in NonEmptyEmails}

Pending == [kind |-> "pending"]

VARIABLES
    debug,          \* self.debug
    hash_of,        \* the built-in hash on prompts, fixed for the process
    _cache,         \* self._cache: cache key -> response text
    api_calls,      \* self.api_calls
    pc,             \* "idle", or "calling" inside the retry loop
    email,          \* email_text of the current or last call
    prompt,         \* prompt of the call inside the retry loop
    attempt,        \* loop variable of _call_gemini_with_retry
    error_msg,      \* str(e) of the last exception caught
    response_text,  \* response_text of analyze_email
    result,         \* what the last call of analyze_email returned or raised
    calls,          \* number of calls of analyze_email started
    route,          \* how the last call got its text: "empty", "cache", "remote"
    remote_calls,   \* invocations of generate_content seen by the remote side
    remote_log,     \* the invocations of the current or last call, in order
    served,         \* per prompt: finished calls and the invocations they made
    exhausted,      \* prompt -> Verdict returned when its retry budget ran out
    text,           \* input of _extract_json explored on its own
    parsed,         \* its result
    likelihood,     \* phishing_likelihood, in hundredths
    insights,       \* insights given to _calc_risk_level explored on its own
    risk            \* its result

detector_vars == <<debug, hash_of, _cache, api_calls, pc, email, prompt, attempt, error_msg,
                   response_text, result, calls, route, remote_calls, remote_log, served,
                   exhausted>>
extract_vars == <<text, parsed>>
risk_vars == <<likelihood, insights, risk>>
vars == <<detector_vars, extract_vars, risk_vars>>

NotRun == "not run"
NotParsed == [k |-> "not run"]

\* __init__, lines 19-26
DetectorInit ==
    /\ debug \in BOOLEAN
    /\ hash_of \in [Prompts -> HashValues]
    /\ _cache = [k \in {} |-> <<>>]
    /\ api_calls = 0
    /\ pc = "idle"
    /\ email = <<>>
    /\ prompt = <<>>
    /\ attempt = 0
    /\ error_msg = <<>>
    /\ response_text = <<>>
    /\ result = Pending
    /\ calls = 0
    /\ route = "none"
    /\ remote_calls = 0
    /\ remote_log = <<>>
    /\ served = [p \in Prompts |-> [calls |-> 0, invocations |-> 0, first |-> 0]]
    /\ exhausted = [p \in {} |-> Pending]

ExtractIdle == text = <<>> /\ parsed = NotParsed
RiskIdle == likelihood = 0 /\ insights = <<>> /\ risk = NotRun

\* a detector that analyses nothing, for the functions explored on their own
DetectorIdle == DetectorInit /\ ~debug /\ hash_of = [p \in Prompts |-> 1]

Init == DetectorInit /\ ExtractIdle /\ RiskIdle

\* (variant: the debug test the wrong way round)
CacheHit_debug_only(cache_key) == cache_key \in DOMAIN _cache /\ debug
\* line 35: cache_key in self._cache and not self.debug
CacheHit(cache_key) == cache_key \in DOMAIN _cache /\ ~debug

ServedAfter(p, n) ==
    [served EXCEPT ![p] = [calls       |-> @.calls + 1,
                           invocations |-> @.invocations + n,
                           first       |-> IF @.calls = 0 THEN n ELSE @.first]]

\* lines 30-31: empty input is answered without touching anything
AnalyzeEmpty(email_text) ==
    /\ pc = "idle" /\ calls < MaxCalls
    /\ IsEmptyEmail(email_text)
    /\ email' = email_text /\ calls' = calls + 1 /\ route' = "empty"
    /\ result' = _error_response(T_empty_email)
    /\ prompt' = <<>> /\ attempt' = 0 /\ error_msg' = <<>> /\ response_text' = <<>>
    /\ remote_log' = <<>>
    /\ UNCHANGED <<debug, hash_of, _cache, api_calls, pc, remote_calls, served, exhausted>>
    /\ UNCHANGED <<extract_vars, risk_vars>>

\* lines 32-38 and 42-51 when the cache answers
AnalyzeCached(email_text) ==
    /\ pc = "idle" /\ calls < MaxCalls
    /\ ~IsEmptyEmail(email_text)
    /\ CacheHit(hash_of[PromptOf(email_text)])
    /\ response_text' = _cache[hash_of[PromptOf(email_text)]]
    /\ result' = MakeVerdict(response_text')
    /\ served' = ServedAfter(PromptOf(email_text), 0)
    /\ email' = email_text /\ calls' = calls + 1 /\ route' = "cache"
    /\ prompt' = <<>> /\ attempt' = 0 /\ error_msg' = <<>>
    /\ remote_log' = <<>>
    /\ UNCHANGED <<debug, hash_of, _cache, api_calls, pc, remote_calls, exhausted>>
    /\ UNCHANGED <<extract_vars, risk_vars>>

\* lines 32-40 otherwise: enter _call_gemini_with_retry
AnalyzeMiss(email_text) ==
    /\ pc = "idle" /\ calls < MaxCalls
    /\ ~IsEmptyEmail(email_text)
    /\ ~CacheHit(hash_of[PromptOf(email_text)])
    /\ email' = email_text /\ calls' = calls + 1 /\ route' = "remote"
    /\ prompt' = PromptOf(email_text)
    /\ pc' = "calling" /\ attempt' = 0
    /\ error_msg' = <<>> /\ response_text' = <<>> /\ result' = Pending
    /\ remote_log' = <<>>
    /\ UNCHANGED <<debug, hash_of, _cache, api_calls, remote_calls, served, exhausted>>
    /\ UNCHANGED <<extract_vars, risk_vars>>

analyze_email(email_text) ==
    \/ AnalyzeEmpty(email_text)
    \/ AnalyzeCached(email_text)
    \/ AnalyzeMiss(email_text)

\* (variant: the counter raised after the invocation, so only when it answers)
Invoke_counted_late(outcome, reply, slept) ==
    /\ api_calls' = IF outcome = "ok" THEN api_calls + 1 ELSE api_calls
    /\ remote_calls' = remote_calls + 1
    /\ remote_log' = Append(remote_log, [model   |-> ModelFor(attempt),
                                         outcome |-> outcome,
                                         reply   |-> reply,
                                         slept   |-> slept])
\* lines 100-109: the counter is raised, then the tier of this attempt is invoked
Invoke(outcome, reply, slept) ==
    /\ api_calls' = api_calls + 1
    /\ remote_calls' = remote_calls + 1
    /\ remote_log' = Append(remote_log, [model   |-> ModelFor(attempt),
                                         outcome |-> outcome,
                                         reply   |-> reply,
                                         slept   |-> slept])

\* (variant: the text that stands in for a failure is not kept in the cache)
Return_failure_not_cached(t, failed) ==
    /\ _cache' = IF failed THEN _cache ELSE (hash_of[prompt] :> t) @@ _cache
    /\ response_text' = t
    /\ result' = MakeVerdict(t)
    /\ pc' = "idle"
    /\ served' = ServedAfter(prompt, Len(remote_log) + 1)
    /\ exhausted' = IF failed THEN (prompt :> result') @@ exhausted ELSE exhausted
\* _call_gemini_with_retry returns t: lines 40-51 of analyze_email
Return(t, failed) ==
    /\ _cache' = (hash_of[prompt] :> t) @@ _cache
    /\ response_text' = t
    /\ result' = MakeVerdict(t)
    /\ pc' = "idle"
    /\ served' = ServedAfter(prompt, Len(remote_log) + 1)
    /\ exhausted' = IF failed THEN (prompt :> result') @@ exhausted ELSE exhausted

Continue ==
    /\ attempt' = attempt + 1
    /\ UNCHANGED <<_cache, response_text, result, pc, served, exhausted>>

\* lines 106-113: the remote model answers
AttemptSucceeds(reply) ==
    /\ pc = "calling"
    /\ Invoke("ok", reply, 0)
    /\ Return(reply, FALSE)
    /\ UNCHANGED <<debug, hash_of, email, prompt, attempt, error_msg, calls, route>>
    /\ UNCHANGED <<extract_vars, risk_vars>>

\* lines 114-121: the exception names a rate limit
AttemptRateLimited(msg) ==
    /\ pc = "calling"
    /\ IsRateLimit(msg)
    /\ Invoke("rate limit", msg, (attempt + 1) * 2)
    /\ error_msg' = msg
    /\ IF attempt + 1 < MAX_RETRIES
       THEN Continue
       ELSE attempt' = attempt /\ Return(T_empty_object, TRUE)
    /\ UNCHANGED <<debug, hash_of, email, prompt, calls, route>>
    /\ UNCHANGED <<extract_vars, risk_vars>>

\* lines 114-117 and 122-132: any other exception
AttemptFails(msg) ==
    /\ pc = "calling"
    /\ ~IsRateLimit(msg)
    /\ error_msg' = msg
    /\ IF attempt < MAX_RETRIES - 1
       THEN Invoke("error", msg, 1) /\ Continue
       ELSE Invoke("error", msg, 0) /\ attempt' = attempt /\ Return(FallbackText(msg), TRUE)
    /\ UNCHANGED <<debug, hash_of, email, prompt, calls, route>>
    /\ UNCHANGED <<extract_vars, risk_vars>>

Next ==
    \/ \E e \in Emails : analyze_email(e)
    \/ \E r \in Responses : AttemptSucceeds(r)
    \/ \E m \in ErrorMessages : AttemptRateLimited(m)
    \/ \E m \in ErrorMessages : AttemptFails(m)

Spec == Init /\ [][Next]_vars

(***************************************************************************)
(* _extract_json on its own: every short text over the characters the      *)
(* stages look at, and the response texts of the detector above.           *)
(***************************************************************************)
MaxTextLen == 4
TextAlphabet == {"{", "}", "\"", "'", ":", "a", "1"}
ShortTexts == UNION {[1..n -> TextAlphabet] : n \in 0..MaxTextLen}
ExtractInputs ==
    ShortTexts \cup Responses \cup {FallbackText(m) : m \in ErrorMessages}

ExtractInit == text \in ExtractInputs /\ parsed = NotParsed
ExtractRun ==
    /\ parsed = NotParsed
    /\ parsed' = _extract_json(text)
    /\ UNCHANGED <<text, detector_vars, risk_vars>>
InitExtract == DetectorIdle /\ ExtractInit /\ RiskIdle
SpecExtract == InitExtract /\ [][ExtractRun]_vars

(***************************************************************************)
(* _calc_risk_level on its own: a likelihood given in hundredths and a     *)
(* short list of insight strings.                                          *)
(***************************************************************************)
MaxInsights == 3
Hundredths == 0..100
I_verify == <<"P","l","e","a","s","e"," ","v","e","r","i","f","y"," ","y","o","u","r"," ",
              "p","a","s","s","w","o","r","d">>
I_urgent == <<"U","R","G","E","N","T","!">>
I_plain == <<"S","e","e"," ","y","o","u"," ","a","t"," ","l","u","n","c","h">>
InsightPool == {I_verify, I_urgent, I_plain}
InsightLists == UNION {[1..n -> InsightPool] : n \in 0..MaxInsights}

\* the ParsedAnalysis with phishing_likelihood l/100 and the insights ins
AnalysisOf(l, ins) ==
    PyDict(<< <<K_phishing_likelihood, PyNum(ToDouble(l, 2))>>,
              <<K_insights, PyList([i \in 1..Len(ins) |-> PyStr(ins[i])])>> >>)

RiskInit == likelihood \in Hundredths /\ insights \in InsightLists /\ risk = NotRun
RiskRun ==
    /\ risk = NotRun
    /\ risk' = _calc_risk_level(AnalysisOf(likelihood, insights))
    /\ UNCHANGED <<likelihood, insights, detector_vars, extract_vars>>
InitRisk == DetectorIdle /\ ExtractIdle /\ RiskInit
SpecRisk == InitRisk /\ [][RiskRun]_vars

(***************************************************************************)
(* Properties of the detector (specification Spec).                        *)
(***************************************************************************)
\* the last call of analyze_email was for a non-empty email and has ended
Finished == pc = "idle" /\ route \in {"remote", "cache"}
\* the retry loop of the last call has ended
LoopEnded == pc = "idle" /\ route = "remote"
Outcomes(log) == {log[i].outcome : i \in 1..Len(log)}
InPercent(f) == ~FLt(F_100, f)

\* C1: for every non-empty email and every behaviour of the remote model,
\* analyze_email returns a Verdict (it does not raise) whose risk_level is Safe,
\* Suspicious or Dangerous and whose confidence lies in [0,100].
C1_AlwaysValidVerdict ==
    Finished => /\ result.kind = "verdict"
                /\ result.risk_level \in RiskLevel
                /\ InPercent(result.confidence)

\* the payload the retry loop is said to return when every attempt failed
IsFallbackPayload(payload, msg) ==
    /\ payload.ok
    /\ payload.val =
           PyDict(<< <<K_phishing_likelihood, PyNum(ToDouble(5, 1))>>,
                     <<K_confidence, PyNum(ToDouble(4, 1))>>,
                     <<K_insights, PyList(<<PyStr(T_api_error)>>)>>,
                     <<K_reasoning, PyStr(T_error_prefix \o msg)>>,
                     <<K_recommended_action, PyStr(T_examine)>> >>)
AllAttemptsFailed ==
    LoopEnded /\ Len(remote_log) = MAX_RETRIES /\ "ok" \notin Outcomes(remote_log)

\* C2: when all MAX_RETRIES attempts fail, whatever the mix of rate-limit and
\* other failures, _call_gemini_with_retry returns the fallback payload:
\* phishing_likelihood 0.5, confidence 0.4, the single API-error insight and
\* the last error text in the reasoning.
C2_ExhaustionGivesFallback ==
    AllAttemptsFailed => IsFallbackPayload(json_loads(response_text), error_msg)

\* C3 as first stated: the calls made with one prompt trigger exactly one remote
\* invocation in total.
C3_ExactlyOneInvocation ==
    \A p \in Prompts : served[p].calls = 2 => served[p].invocations = 1

\* C3: the first call made with a prompt makes at most MAX_RETRIES remote
\* invocations; with debug off every later call with that prompt is served from
\* the cache and makes none, so that the invocations made for the prompt are
\* those of its first call; with debug on every call makes at least one.
C3_LaterCallsServedFromCache ==
    \A p \in Prompts :
        /\ served[p].first <= MAX_RETRIES
        /\ ~debug => served[p].invocations = served[p].first
        /\ debug => served[p].invocations >= served[p].calls
C3_SecondCallFromCache ==
    /\ ~debug /\ Finished /\ route = "cache"
    /\ email = Email_headers_loose
    /\ served[PromptOf(email)].calls = 2
    /\ served[PromptOf(email)].first = MAX_RETRIES

\* C4: when an attempt fails with a rate-limit error and another attempt
\* follows, the following attempt is made against the same model as the
\* rate-limited one, after a sleep of (attempt+1)*2 seconds (the i-th invocation
\* is attempt i-1).
C4_RateLimitKeepsTier ==
    \A i \in 1..(Len(remote_log) - 1) :
        remote_log[i].outcome = "rate limit" =>
            /\ remote_log[i].slept = i * 2
            /\ remote_log[i + 1].model = remote_log[i].model

\* the first k invocations failed and invocation k+1 answered
SucceededAfter(k) ==
    /\ LoopEnded /\ Len(remote_log) = k + 1
    /\ remote_log[k + 1].outcome = "ok"
    /\ \A i \in 1..k : remote_log[i].outcome # "ok"

\* C5: if the first k attempts fail (k < 3) and attempt k+1 succeeds, the loop
\* returns exactly the text of the successful response, and that attempt is made
\* against tier min(k, 2) of the list; after two failures it is the last tier.
C5_SuccessAfterFailures ==
    \A k \in 0..(MAX_RETRIES - 1) :
        SucceededAfter(k) =>
            /\ response_text = remote_log[k + 1].reply
            /\ remote_log[k + 1].model = models_to_try[Min(k, 2) + 1]
            /\ k = 2 => remote_log[k + 1].model = "gemini-1.0-pro"
C5_ThirdAttemptSucceeds ==
    SucceededAfter(2) /\ response_text = Resp_safe /\ result.risk_level = RiskLevel_SAFE

\* the Error Verdict as documented
ErrorVerdict ==
    [kind               |-> "verdict",
     timestamp          |-> "2025-03-07 14:05:36",
     risk_level         |-> "Suspicious",
     confidence         |-> ToDouble(500, 1),
     reasons            |-> PyList(<<PyStr(T_error_in_analysis)>>),
     recommended_action |-> PyStr(T_manual_required),
     analysis           |-> PyStr(T_empty_email)]
\* this step is a call of analyze_email
CallStarts == calls' = calls + 1

\* C6: a call of analyze_email with empty or whitespace-only text returns
\* exactly the Error Verdict and does nothing else: no remote invocation, the
\* call counter and the cache unchanged, no retry loop entered.
C6_EmptyInputShortCircuits ==
    [][CallStarts /\ (email' = <<>> \/ \A i \in 1..Len(email') : IsSpace(email'[i]))
         => /\ result' = ErrorVerdict
            /\ pc' = "idle"
            /\ remote_calls' = remote_calls
            /\ api_calls' = api_calls
            /\ _cache' = _cache]_vars
C6_BlankAfterRemoteCall ==
    /\ route = "empty" /\ email = Email_blank /\ result = ErrorVerdict
    /\ calls = 2 /\ api_calls = MAX_RETRIES /\ DOMAIN _cache # {}

\* C9: api_calls is the number of remote invocations made so far; one run of
\* the retry loop makes at least 1 and at most MAX_RETRIES invocations; every
\* step of the loop either ends it or moves to the next attempt, of which
\* there are fewer than MAX_RETRIES left (so it terminates); and no
\* invocation follows one that succeeded.
C9_CounterAndLoopBounds ==
    /\ api_calls = remote_calls
    /\ Len(remote_log) <= MAX_RETRIES
    /\ pc = "calling" => /\ attempt = Len(remote_log)
                         /\ attempt < MAX_RETRIES
                         /\ "ok" \notin Outcomes(remote_log)
    /\ LoopEnded => /\ Len(remote_log) >= 1
                    /\ \A i \in 1..(Len(remote_log) - 1) : remote_log[i].outcome # "ok"
C9_LoopAdvances ==
    pc = "calling" => /\ api_calls' = api_calls + 1
                      /\ pc' = "idle" \/ (pc' = "calling" /\ attempt' = attempt + 1)
C9_CountsEveryInvocation == []C9_CounterAndLoopBounds /\ [][C9_LoopAdvances]_vars
C9_ThreeFailuresCounted ==
    AllAttemptsFailed /\ calls = 2 /\ api_calls = MAX_RETRIES + 1

\* the last call was made with prompt p and has ended
LastCallFor(p) == Finished /\ PromptOf(email) = p
\* this step is a whole call of analyze_email made with prompt p
WholeCallFor(p) == CallStarts /\ ~IsEmptyEmail(email') /\ PromptOf(email') = p

\* C10: the text the retry loop returns is in the cache under the prompt's key
\* when the call ends, also when it is the text that stands in for a failure;
\* with debug off, once a call with a prompt has ended in exhaustion, every later
\* call with that prompt is served in one step without a remote invocation and
\* returns the Verdict of the exhausted call.
C10_ReturnedTextCached ==
    /\ LoopEnded => /\ hash_of[prompt] \in DOMAIN _cache
                    /\ _cache[hash_of[prompt]] = response_text
    /\ \A p \in DOMAIN exhausted : ~debug /\ LastCallFor(p) => result = exhausted[p]
C10_NoRetryAfterExhaustion ==
    \A p \in DOMAIN exhausted :
        ~debug /\ WholeCallFor(p) => /\ route' = "cache" /\ pc' = "idle"
                                     /\ api_calls' = api_calls
                                     /\ remote_calls' = remote_calls
                                     /\ result' = exhausted[p]
C10_FailureIsCached == []C10_ReturnedTextCached /\ [][C10_NoRetryAfterExhaustion]_vars
C10_ServedAfterExhaustion ==
    /\ ~debug /\ route = "cache" /\ calls = 2 /\ api_calls = MAX_RETRIES
    /\ PromptOf(email) \in DOMAIN exhausted
    /\ result = exhausted[PromptOf(email)]
    /\ response_text \in {T_empty_object} \cup {FallbackText(m) : m \in ErrorMessages}

(***************************************************************************)
(* Properties of _extract_json (specification SpecExtract).                *)
(***************************************************************************)
\* the text has a "{" with a "}" after it
HasBraces(t) == FirstBrace(t) <= Len(t) /\ LastBrace(t, FirstBrace(t)) > FirstBrace(t)
Braced(t) == SubSeq(t, FirstBrace(t), LastBrace(t, FirstBrace(t)))
Repaired(t) == SingleToDoubleQuotes(QuoteBareKeys(t))
\* no stage parses: the text, the text between the braces, that text repaired
NoStageParses(t) ==
    /\ ~json_loads(t).ok
    /\ HasBraces(t) => /\ ~json_loads(Braced(t)).ok
                       /\ ~json_loads(Repaired(Braced(t))).ok
IsDefaultAnalysis(a) ==
    /\ a.k = "dict" /\ Len(a.v) = 5
    /\ DictGet(a, K_phishing_likelihood, PyNone) = PyNum(ToDouble(5, 1))
    /\ DictGet(a, K_confidence, PyNone) = PyNum(ToDouble(3, 1))
    /\ DictGet(a, K_insights, PyNone) = PyList(<<PyStr(T_parser_error)>>)
    /\ DictGet(a, K_reasoning, PyNone) = PyStr(T_format_error)
    /\ DictGet(a, K_recommended_action, PyNone) = PyStr(T_manual_review)
Extracted == parsed # NotParsed

\* C7 as first stated: for every text that no stage parses, the empty text
\* included, _extract_json returns the default ParsedAnalysis.
C7_DefaultForEveryFailure ==
    Extracted /\ NoStageParses(text) => IsDefaultAnalysis(parsed)

\* C7: for every non-empty text that no stage parses, with or without braces,
\* _extract_json returns the default ParsedAnalysis (phishing_likelihood 0.5,
\* confidence 0.3, the parser-error insight, the format-error reasoning, the
\* manual-review recommendation); for the empty text it returns an empty object.
C7_DefaultForNonEmptyFailure ==
    /\ Extracted /\ text # <<>> /\ NoStageParses(text) => IsDefaultAnalysis(parsed)
    /\ Extracted /\ text = <<>> => parsed = PyDict(<<>>)
C7_RepairFailed ==
    /\ Extracted /\ HasBraces(text) /\ NoStageParses(text)
    /\ Repaired(Braced(text)) # Braced(text)
    /\ IsDefaultAnalysis(parsed)

(***************************************************************************)
(* Properties of _calc_risk_level (specification SpecRisk).                *)
(***************************************************************************)
Scored == risk # NotRun
\* the number of insights that hold at least one of the keywords
Matching(ins) == Cardinality({i \in 1..Len(ins) : HasDangerKeyword(ins[i])})
\* the reference in hundredths: min(1.0, L + 0.1 * n) against 0.35 and 0.65
ReferenceRisk(l, n) ==
    IF Min(100, l + 10 * n) < 35 THEN "Safe"
    ELSE IF Min(100, l + 10 * n) < 65 THEN "Suspicious"
    ELSE "Dangerous"
\* the same expression evaluated in binary64: one product, one sum
ReferenceRiskBinary(l, n) ==
    Classify(FMin(FAdd(ToDouble(l, 2), FMul(F_0_1, ToDouble(n, 0))), F_1_0))

\* C8: for every likelihood L in [0,1] and every list of insight strings,
\* _calc_risk_level gives the level of min(1.0, L + 0.1 * n), n the number of
\* insights holding a keyword: Safe below 0.35, Suspicious from 0.35 and below
\* 0.65, Dangerous from 0.65 (read as real or as binary64 arithmetic).
C8_MatchesReference ==
    Scored => risk \in {ReferenceRisk(likelihood, Matching(insights)),
                        ReferenceRiskBinary(likelihood, Matching(insights))}

====
